---- MODULE Spec2Model ----
(***************************************************************************)
(* Model of app.py: the nutrition ledger of the LINE bot.                  *)
(*                                                                         *)
(* The ledger is one JSON document {targets, records, food_db,             *)
(* next_record_id}.  GitHubStorage keeps it in one file of a GitHub        *)
(* repository and reaches it with the Contents API: a GET returns the      *)
(* content and its blob sha, a PUT carries the new content and the sha of  *)
(* the blob it replaces.  Every storage method is _read_state (one GET),   *)
(* a change of the decoded dict, and _write_state -> _save_file (a second  *)
(* GET for the sha, then the PUT).  Request handlers run concurrently, so  *)
(* each HTTP request is one atomic step of the model and the steps of      *)
(* different callers interleave.  LocalStorage keeps the same document in  *)
(* memory and changes it in place; its callers are threads of one process  *)
(* and each statement of a method is one step.                             *)
(*                                                                         *)
(* Numbers typed by users (grams) are modelled as integers in tenths of a  *)
(* gram; scaled macros of a record are exact fractions <<num, den>>.       *)
(* The command words of parse_text are written in pinyin, since a TLA+     *)
(* string holds ASCII only: mubiao = 目標, xinzeng = 新增, shanchu = 刪除, *)
(* qingchu_quanbu = 清除全部, chashiwu = 查食物, sousuo = 搜尋,            *)
(* jinri_liebiao = 今日列表, jinri_leiji = 今日累計.                       *)
(***************************************************************************)
EXTENDS Integers, Sequences, FiniteSets, TLC

\* ------------------------------------------------------------------ bounds
\* Concurrent callers (request handlers or processes) of the storage.
NumProcs == 2
\* Requests (storage calls or text commands) started in one behaviour.
MaxCalls == 3
\* Days the UTC clock can show (1..MaxDay).
MaxDay == 2
\* Record ids a delete request may name (1..MaxRecId).
MaxRecId == 2
\* Requests started in one behaviour that begins without the data file.
MaxFailCalls == 2
\* Text commands of one behaviour of the user who looks at the day's percents.
MaxFlexCalls == 4

Procs == 1..NumProcs
Users == {"A", "B"}

\* ------------------------------------------------------------- dict helpers
\* A Python dict is a function on the set of its keys.
EmptyDict == [k \in {} |-> 0]

\* dict.get(k, default)
Get(d, k, default) == IF k \in DOMAIN d THEN d[k] ELSE default

\* d[k] = v
Put(d, k, v) == [x \in (DOMAIN d) \cup {k} |-> IF x = k THEN v ELSE d[x]]

\* ------------------------------------------------------------- ledger state
\* The document GitHubStorage.__init__ writes and _read_state falls back to.
InitState ==
    [targets |-> EmptyDict, records |-> EmptyDict, food_db |-> EmptyDict,
     next_record_id |-> 1]

\* state.get("records", {}).get(user_id, [])
RecordsOf(state, user_id) == Get(state.records, user_id, <<>>)

RecIds(state, user_id) ==
    {RecordsOf(state, user_id)[i].id : i \in 1..Len(RecordsOf(state, user_id))}

\* set_target: state["targets"][user_id] = {protein, fat, carbs}
set_target(state, user_id, p, f, c) ==
    [state EXCEPT !.targets =
        Put(state.targets, user_id, [protein |-> p, fat |-> f, carbs |-> c])]

\* add_food_db: state["food_db"][food] = {base_weight, protein, fat, carbs, category}
add_food_db(state, food, base_weight, p, f, c, category) ==
    [state EXCEPT !.food_db =
        Put(state.food_db, food,
            [base_weight |-> base_weight, protein |-> p, fat |-> f,
             carbs |-> c, category |-> category])]

\* A get_food that answers a blank entry for a name the catalog lacks.
get_food_or_blank(state, food) ==
    IF food \in DOMAIN state.food_db THEN <<state.food_db[food]>>
    ELSE <<[base_weight |-> 1000, protein |-> 0, fat |-> 0, carbs |-> 0,
            category |-> ""]>>

\* get_target: state["targets"].get(user_id); <<>> stands for None
get_target(state, user_id) ==
    IF user_id \in DOMAIN state.targets THEN <<state.targets[user_id]>> ELSE <<>>

\* get_food: state["food_db"].get(food); <<>> stands for None
get_food(state, food) ==
    IF food \in DOMAIN state.food_db THEN <<state.food_db[food]>> ELSE <<>>

\* The record add_record builds: its id is the state's next_record_id and
\* its time is the UTC clock at the call.
NewRecord(state, food, weight, p, f, c, now) ==
    [id |-> state.next_record_id, food |-> food, weight |-> weight,
     protein |-> p, fat |-> f, carbs |-> c, time |-> now]

\* add_record: append the record to the user's list, next_record_id = rid + 1
add_record(state, user_id, food, weight, p, f, c, now) ==
    [state EXCEPT
        !.records = Put(state.records, user_id,
                        Append(RecordsOf(state, user_id),
                               NewRecord(state, food, weight, p, f, c, now))),
        !.next_record_id = state.next_record_id + 1]

\* delete_record: new = [r for r in recs if r["id"] != rec_id]
DeleteKeep(recs, rec_id) ==
    LET keep(r) == r.id # rec_id IN SelectSeq(recs, keep)

delete_record(state, rec_id, user_id) ==
    [state EXCEPT !.records =
        Put(state.records, user_id, DeleteKeep(RecordsOf(state, user_id), rec_id))]

\* changed = len(recs) - len(new)
delete_changed(state, rec_id, user_id) ==
    Len(RecordsOf(state, user_id))
        - Len(DeleteKeep(RecordsOf(state, user_id), rec_id))

\* clear_today: new = [r for r in recs if date(r["time"]) != today]
ClearKeep(recs, now) ==
    LET keep(r) == r.time # now IN SelectSeq(recs, keep)

clear_today(state, user_id, now) ==
    [state EXCEPT !.records =
        Put(state.records, user_id, ClearKeep(RecordsOf(state, user_id), now))]

\* removed = len(recs) - len(new)
clear_removed(state, user_id, now) ==
    Len(RecordsOf(state, user_id)) - Len(ClearKeep(RecordsOf(state, user_id), now))

\* A get_today_records that does not look at the date.
all_records(state, user_id, day) == RecordsOf(state, user_id)

\* get_today_records: the user's records whose date is today
get_today_records(state, user_id, day) ==
    LET keep(r) == r.time = day IN SelectSeq(RecordsOf(state, user_id), keep)

\* --------------------------------------------------------------- fractions
RECURSIVE Gcd(_, _)
Gcd(a, b) == IF b = 0 THEN a ELSE Gcd(b, a % b)

Abs(n) == IF n < 0 THEN -n ELSE n

\* The number n/d (d > 0) in lowest terms.
Frac(n, d) ==
    LET g == Gcd(Abs(n), d) IN IF n = 0 THEN <<0, 1>> ELSE <<n \div g, d \div g>>

\* ------------------------------------------------------------ storage calls
\* One call of a GitHubStorage method with its arguments: nums holds the
\* numbers typed by the user, macros the scaled values of a record.
Call(op, user_id, food, rec_id, nums, macros, category) ==
    [op |-> op, user_id |-> user_id, food |-> food, rec_id |-> rec_id,
     nums |-> nums, macros |-> macros, category |-> category]

NoCall == Call("none", "", "", 0, <<>>, <<>>, "")

\* __init__'s self._save_file(init, "Initialize data file")
InitCall == Call("init", "", "", 0, <<>>, <<>>, "")

\* The methods that end in _write_state, were get_today_records one of them.
MutationsAndToday ==
    {"set_target", "add_food_db", "add_record", "delete_record", "clear_today",
     "get_today_records"}

Mutations == {"set_target", "add_food_db", "add_record", "delete_record", "clear_today"}

\* The dict a method hands to _write_state, from the dict _read_state gave it.
Apply(c, state, now) ==
    CASE c.op = "set_target" ->
            set_target(state, c.user_id, c.nums[1], c.nums[2], c.nums[3])
      [] c.op = "add_food_db" ->
            add_food_db(state, c.food, c.nums[1], c.nums[2], c.nums[3], c.nums[4],
                        c.category)
      [] c.op = "add_record" ->
            add_record(state, c.user_id, c.food, c.nums[1], c.macros[1],
                       c.macros[2], c.macros[3], now)
      [] c.op = "delete_record" -> delete_record(state, c.rec_id, c.user_id)
      [] c.op = "clear_today" -> clear_today(state, c.user_id, now)
      [] c.op = "init" -> InitState
      [] OTHER -> state

\* What the method returns: the id of the new record (add_record returns
\* rec), changed, removed, the list of today's records, the catalog entry
\* (<<>> for None); 0 stands for the None of a method without a return.
ReturnOf(c, state, now) ==
    CASE c.op = "add_record" -> state.next_record_id
      [] c.op = "delete_record" -> delete_changed(state, c.rec_id, c.user_id)
      [] c.op = "clear_today" -> clear_removed(state, c.user_id, now)
      [] c.op = "get_today_records" -> get_today_records(state, c.user_id, now)
      [] c.op = "get_food" -> get_food(state, c.food)
      [] c.op = "get_target" -> get_target(state, c.user_id)
      [] OTHER -> 0

\* ----------------------------------------------------------- parse_text
\* float(tok) for the number words of the model, in tenths; a word outside
\* the table makes float() raise ValueError.
FloatOf ==
    ("0" :> 0) @@ ("1" :> 10) @@ ("2" :> 20) @@ ("3" :> 30) @@ ("100" :> 1000)
    @@ ("125" :> 1250) @@ ("64" :> 640) @@ ("256" :> 2560) @@ ("37.5" :> 375)
    @@ ("4.9" :> 49) @@ ("25.3" :> 253) @@ ("-5" :> -50) @@ ("60" :> 600)

IsFloat(tok) == tok \in DOMAIN FloatOf

\* int(tok): the words that are integer literals.
IntOf == ("0" :> 0) @@ ("1" :> 1) @@ ("2" :> 2) @@ ("3" :> 3) @@ ("-5" :> -5)

IsInt(tok) == tok \in DOMAIN IntOf

\* text.startswith(kw), text being the words of parts joined by blanks (no
\* word of the model is a longer word beginning with a command word).
StartsWith(parts, kw) == parts # <<>> /\ parts[1] = kw

\* factor = weight / base if base>0 else 0;  macro * factor
Scaled(macro, weight, base_weight) ==
    IF base_weight > 0 THEN Frac(macro * weight, base_weight) ELSE <<0, 1>>

\* What parse_text does next: return a reply, or call the storage.
Reply(text) == [kind |-> "reply", reply |-> text, call |-> NoCall, flex |-> <<>>]
Invoke(c) == [kind |-> "call", reply |-> "", call |-> c, flex |-> <<>>]
\* The reply of 今日累計: the Flex message with its three percents.
FlexReply(pcts) == [kind |-> "reply", reply |-> "flex", call |-> NoCall, flex |-> pcts]

\* parse_text up to its first storage call.
ParseText(user_id, parts) ==
    IF StartsWith(parts, "mubiao") THEN
        IF Len(parts) # 4 THEN Reply("target_usage")
        ELSE IF ~(IsFloat(parts[2]) /\ IsFloat(parts[3]) /\ IsFloat(parts[4]))
            THEN Reply("target_format_error")
        ELSE Invoke(Call("set_target", user_id, "", 0,
                         <<FloatOf[parts[2]], FloatOf[parts[3]], FloatOf[parts[4]]>>,
                         <<>>, ""))
    ELSE IF StartsWith(parts, "xinzeng") THEN
        IF Len(parts) \notin {6, 7} THEN Reply("add_usage")
        ELSE IF ~(IsFloat(parts[3]) /\ IsFloat(parts[4]) /\ IsFloat(parts[5])
                  /\ IsFloat(parts[6]))
            THEN Reply("add_format_error")
        ELSE Invoke(Call("add_food_db", "", parts[2], 0,
                         <<FloatOf[parts[3]], FloatOf[parts[4]], FloatOf[parts[5]],
                           FloatOf[parts[6]]>>,
                         <<>>, IF Len(parts) = 7 THEN parts[7] ELSE "qita"))
    ELSE IF parts = <<"chashiwu">> THEN
        Invoke(Call("list_foods", user_id, "", 0, <<>>, <<>>, ""))
    ELSE IF StartsWith(parts, "sousuo") THEN
        IF Len(parts) < 2 THEN Reply("search_usage")
        ELSE Invoke(Call("search_foods", user_id, parts[2], 0, <<>>, <<>>, ""))
    ELSE IF Len(parts) = 2 THEN
        IF ~IsFloat(parts[2]) THEN Reply("log_format_error")
        ELSE Invoke(Call("get_food", user_id, parts[1], 0, <<FloatOf[parts[2]]>>,
                         <<>>, ""))
    ELSE IF StartsWith(parts, "shanchu") THEN
        IF Len(parts) # 2 THEN Reply("delete_usage")
        ELSE IF ~IsInt(parts[2]) THEN Reply("delete_format_error")
        ELSE Invoke(Call("delete_record", user_id, "", IntOf[parts[2]], <<>>, <<>>, ""))
    ELSE IF parts = <<"qingchu_quanbu">> THEN
        Invoke(Call("clear_today", user_id, "", 0, <<>>, <<>>, ""))
    ELSE IF parts = <<"jinri_liebiao">> \/ parts = <<"jinri_leiji">> THEN
        Invoke(Call("get_today_records", user_id, "", 0, <<>>, <<>>, ""))
    ELSE Reply("help")

\* a + b of two fractions
FracAdd(a, b) == Frac(a[1] * b[2] + b[1] * a[2], a[2] * b[2])

\* sum([r[macro] for r in records]), macro being "protein", "fat" or "carbs"
RECURSIVE SumOf(_, _)
SumOf(records, macro) ==
    IF records = <<>> THEN <<0, 1>>
    ELSE FracAdd(SumOf(Tail(records), macro), Head(records)[macro])

\* pct = max(0.0, min(100.0, pct))
Clamp(pct) ==
    IF pct[1] < 0 THEN <<0, 1>>
    ELSE IF pct[1] > 100 * pct[2] THEN <<100, 1>> ELSE pct

\* The integer "{x:.0f}" prints for the fraction x: the nearest one, the
\* even one of two that are equally near.
RoundHalfEven(x) ==
    LET fl == x[1] \div x[2]
        twice == 2 * (x[1] - fl * x[2])
    IN IF twice < x[2] THEN fl
       ELSE IF twice > x[2] THEN fl + 1
       ELSE IF fl % 2 = 0 THEN fl ELSE fl + 1

\* emoji_progress: the percent it prints
emoji_progress(pct) == RoundHalfEven(Clamp(pct))

\* build_flex_today: p_pct = (total_p/tp*100) if tp>0 else 0
PctOf(total, tp) ==
    IF tp > 0 THEN Frac(total[1] * 100, total[2] * tp) ELSE <<0, 1>>

\* build_flex_today: the three percents of the progress block, from the
\* totals of today's records and the target (<<>> for None).
build_flex_today(totals, target) ==
    LET tp == IF target # <<>> THEN target[1].protein ELSE 0
        tf == IF target # <<>> THEN target[1].fat ELSE 0
        tc == IF target # <<>> THEN target[1].carbs ELSE 0
    IN <<emoji_progress(PctOf(totals[1], tp)),
         emoji_progress(PctOf(totals[2], tf)),
         emoji_progress(PctOf(totals[3], tc))>>

\* parse_text after storage call c ended (ok: it returned val; ~ok: it
\* raised), state being the dict the call read.
After(parts, c, ok, val, state, day) ==
    CASE c.op = "set_target" ->
            Reply(IF ok THEN "target_set" ELSE "target_format_error")
      [] c.op = "add_food_db" ->
            Reply(IF ok THEN "food_added" ELSE "add_format_error")
      [] c.op = "list_foods" ->
            Reply(IF DOMAIN state.food_db = {} THEN "db_empty" ELSE "food_list")
      [] c.op = "search_foods" ->
            Reply(IF c.food \in DOMAIN state.food_db THEN "search_hits"
                  ELSE "search_no_hit")
      [] c.op = "get_food" ->
            IF get_food(state, c.food) = <<>> THEN Reply("food_not_in_db")
            ELSE LET f == get_food(state, c.food)[1] IN
                 Invoke(Call("add_record", c.user_id, c.food, 0, c.nums,
                             <<Scaled(f.protein, c.nums[1], f.base_weight),
                               Scaled(f.fat, c.nums[1], f.base_weight),
                               Scaled(f.carbs, c.nums[1], f.base_weight)>>, ""))
      [] c.op = "add_record" ->
            Reply(IF ok THEN "record_added" ELSE "unhandled_exception")
      [] c.op = "delete_record" ->
            Reply(IF ~ok THEN "delete_format_error"
                  ELSE IF val # 0 THEN "record_deleted" ELSE "record_not_found")
      [] c.op = "clear_today" ->
            Reply(IF ok THEN "cleared" ELSE "unhandled_exception")
      [] c.op = "get_today_records" ->
            IF parts = <<"jinri_leiji">>
            THEN LET recs == get_today_records(state, c.user_id, day) IN
                 Invoke(Call("get_target", c.user_id, "", 0, <<>>,
                             <<SumOf(recs, "protein"), SumOf(recs, "fat"),
                               SumOf(recs, "carbs")>>, ""))
            ELSE Reply(IF get_today_records(state, c.user_id, day) = <<>>
                       THEN "no_records_today" ELSE "today_list")
      [] c.op = "get_target" ->
            FlexReply(build_flex_today(c.macros, get_target(state, c.user_id)))
      [] OTHER -> Reply("")

\* -------------------------------------------------------------------- state
VARIABLES
    remote,   \* the file in the repository: <<>> (absent) or <<content>>
    today,    \* datetime.utcnow().date()
    pc,       \* where each caller is
    cmd,      \* the text command the caller handles (parse_text's arguments)
    reply,    \* what parse_text returned for it ("" while it runs)
    flex,     \* the percents shown by the Flex message it returned (<<>>: none)
    call,     \* the storage call each caller is in
    st,       \* the caller's local `state` dict, as handed to _write_state
    readok,   \* whether _read_state's GET answered 200
    base,     \* the content _read_state decoded (the dict before the change)
    now,      \* the date the call read from the clock
    sha,      \* payload["sha"] of _save_file: <<>> (none) or <<sha>>
    ret,      \* the outcome of the caller's last storage call
    hist,     \* the mutating storage calls ended so far, in the order they ended
    budget    \* requests the callers may still start

vars == <<remote, today, pc, cmd, reply, call, st, readok, base, now, sha, ret,
          hist, budget, flex>>

\* The blob sha GitHub reports for a content: a hash of the content alone,
\* modelled as the content itself (equal contents, equal sha).
ShaOf(content) == content

NoRet == [status |-> "none", call |-> NoCall, val |-> 0]
NoCmd == [user_id |-> "", text |-> <<>>]

TypeOK ==
    /\ Len(remote) \in {0, 1}
    /\ today \in 1..MaxDay
    /\ pc \in [Procs -> {"boot", "idle", "read", "save", "put", "crashed",
                          "lread", "lstore", "lnext"}]
    /\ budget \in 0..MaxFlexCalls
    /\ Len(hist) <= MaxCalls + NumProcs

\* Callers at rest, budget requests to come.
AtRest(n) ==
    /\ today = 1
    /\ cmd = [p \in Procs |-> NoCmd]
    /\ reply = [p \in Procs |-> ""]
    /\ flex = [p \in Procs |-> <<>>]
    /\ call = [p \in Procs |-> NoCall]
    /\ st = [p \in Procs |-> InitState]
    /\ readok = [p \in Procs |-> TRUE]
    /\ base = [p \in Procs |-> InitState]
    /\ now = [p \in Procs |-> 1]
    /\ sha = [p \in Procs |-> <<>>]
    /\ ret = [p \in Procs |-> NoRet]
    /\ hist = <<>>
    /\ budget = n

\* The state once every process has started against a repository that holds
\* the initial document (the bootstrap has run and nothing else has).
Init ==
    /\ remote = <<InitState>>
    /\ pc = [p \in Procs |-> "idle"]
    /\ AtRest(MaxCalls)

\* The same with the requests of the user who looks at the day's percents.
InitFlex ==
    /\ remote = <<InitState>>
    /\ pc = [p \in Procs |-> "idle"]
    /\ AtRest(MaxFlexCalls)

\* Processes starting against a repository without the data file.
InitAbsent ==
    /\ remote = <<>>
    /\ pc = [p \in Procs |-> "boot"]
    /\ AtRest(MaxFailCalls)

\* ------------------------------------------------------------- the requests
\* Arguments of the storage calls the callers make (grams in tenths).
Targets == {<<1250, 640, 2560>>}
Foods == {"oats"}
FoodEntries == {<<375, 49, 30, 253>>}
Weights == {1000}

ApiCalls ==
    {Call("set_target", u, "", 0, t, <<>>, "") : u \in Users, t \in Targets}
    \cup {Call("add_food_db", "", f, 0, e, <<>>, "grain") :
            f \in Foods, e \in FoodEntries}
    \cup {Call("add_record", u, f, 0, <<w>>,
               <<Scaled(e[2], w, e[1]), Scaled(e[3], w, e[1]), Scaled(e[4], w, e[1])>>,
               "") :
            u \in Users, f \in Foods, w \in Weights, e \in FoodEntries}
    \cup {Call("delete_record", u, "", k, <<>>, <<>>, "") :
            u \in Users, k \in 1..MaxRecId}
    \cup {Call("clear_today", u, "", 0, <<>>, <<>>, "") : u \in Users}

\* The calls of callers who log food and read the day's records.
LogCalls == {c \in ApiCalls : c.op = "add_record"}
Queries == {Call("get_today_records", u, "", 0, <<>>, <<>>, "") : u \in Users}

\* The calls of callers who keep the catalog: two names, two valid entries
\* (portion > 0, macros >= 0) with their categories, and a call that writes
\* no catalog entry.
CatalogFoods == {"oats", "rice"}
CatalogEntries == {<<<<375, 49, 30, 253>>, "grain">>, <<<<1000, 27, 3, 280>>, "qita">>}
CatalogCalls ==
    {Call("add_food_db", "", f, 0, e[1], <<>>, e[2]) :
        f \in CatalogFoods, e \in CatalogEntries}
    \cup {Call("get_food", "", f, 0, <<>>, <<>>, "") : f \in CatalogFoods}
    \cup {Call("set_target", "A", "", 0, t, <<>>, "") : t \in Targets}

\* The texts users send.
Texts ==
    { <<"mubiao", "125", "64", "256">>,
      <<"mubiao", "x", "64", "256">>,
      <<"xinzeng", "oats", "37.5", "4.9", "3", "25.3">>,
      <<"xinzeng", "shanchu", "100", "1", "1", "1", "test">>,
      <<"oats", "100">>,
      <<"oats", "x">>,
      <<"qingchu_quanbu">>,
      <<"shanchu">>,
      <<"hello">> }
    \cup {<<"shanchu", k>> : k \in {"1", "2"}}

\* The texts of users who fill the catalog, set goals and log food: goals
\* with a negative number, a catalog entry with portion 0, a food that is not
\* in the catalog.
LedgerTexts ==
    { <<"mubiao", "-5", "64", "256">>,
      <<"xinzeng", "oats", "37.5", "4.9", "3", "25.3">>,
      <<"xinzeng", "oats", "0", "1", "1", "1">>,
      <<"oats", "100">>,
      <<"rice", "100">> }

\* The texts of a user who enters a food, logs it (100 g, and 256 g, which
\* passes the protein goal), sets goals (one of them negative) and asks for
\* the day's percents.
FlexTexts ==
    { <<"xinzeng", "egg", "100", "60", "3", "25.3">>,
      <<"egg", "100">>,
      <<"egg", "256">>,
      <<"mubiao", "125", "64", "256">>,
      <<"mubiao", "-5", "64", "256">>,
      <<"jinri_leiji">> }

\* The texts of users who fill the ledger and then only look at it, or send
\* words that are no command.
ReadTexts ==
    { <<"xinzeng", "oats", "37.5", "4.9", "3", "25.3">>,
      <<"oats", "100">>,
      <<"chashiwu">>,
      <<"sousuo", "oats">>,
      <<"jinri_liebiao">>,
      <<"jinri_leiji">>,
      <<"hello">>,
      <<"hello", "there", "friend">> }

\* The texts of users who enter a food with the 新增 command and log it with
\* a positive, a zero and a negative mass.
MassTexts ==
    { <<"xinzeng", "oats", "37.5", "4.9", "3", "25.3">>,
      <<"oats", "100">>,
      <<"oats", "0">>,
      <<"oats", "-5">> }

\* ------------------------------------------------------------------ actions
\* The UTC date changes.
Tick ==
    /\ today < MaxDay
    /\ today' = today + 1
    /\ UNCHANGED <<remote, pc, cmd, reply, call, st, readok, base, now, sha, ret,
                   hist, budget, flex>>

\* A caller enters storage method c.
Enter(p, c) ==
    /\ pc[p] = "idle"
    /\ budget > 0
    /\ call' = [call EXCEPT ![p] = c]
    /\ pc' = [pc EXCEPT ![p] = "read"]
    /\ ret' = [ret EXCEPT ![p] = NoRet]
    /\ cmd' = [cmd EXCEPT ![p] = NoCmd]
    /\ reply' = [reply EXCEPT ![p] = ""]
    /\ flex' = [flex EXCEPT ![p] = <<>>]
    /\ budget' = budget - 1
    /\ UNCHANGED <<remote, today, st, readok, base, now, sha, hist>>

\* A caller enters a storage method that writes.
BeginCall(p) == \E c \in ApiCalls : Enter(p, c)

\* A caller enters a storage method that only reads.
BeginQuery(p) == \E c \in Queries : Enter(p, c)

\* A caller logs food.
BeginLog(p) == \E c \in LogCalls : Enter(p, c)

\* A caller writes or reads the catalog, or sets a target.
BeginCatalog(p) == \E c \in CatalogCalls : Enter(p, c)

\* handle_message: a text arrives and parse_text runs up to its first storage
\* call, or to its reply when it makes none.
ReceiveText(p, u, t) ==
    LET r == ParseText(u, t) IN
    /\ pc[p] = "idle"
    /\ budget > 0
    /\ cmd' = [cmd EXCEPT ![p] = [user_id |-> u, text |-> t]]
    /\ reply' = [reply EXCEPT ![p] = r.reply]
    /\ flex' = [flex EXCEPT ![p] = r.flex]
    /\ call' = [call EXCEPT ![p] = r.call]
    /\ pc' = [pc EXCEPT ![p] = IF r.kind = "call" THEN "read" ELSE "idle"]
    /\ ret' = [ret EXCEPT ![p] = NoRet]
    /\ budget' = budget - 1
    /\ UNCHANGED <<remote, today, st, readok, base, now, sha, hist>>

Receive(p) == \E u \in Users, t \in Texts : ReceiveText(p, u, t)

\* The same for the texts of user A who looks at the day's percents.
ReceiveFlex(p) == \E t \in FlexTexts : ReceiveText(p, "A", t)

\* The same for the texts of users who look at the ledger.
ReceiveRead(p) == \E u \in Users, t \in ReadTexts : ReceiveText(p, u, t)

\* chart: GET /chart?user_id=u calls storage.get_today_records(u) and draws
\* the totals.
Chart(p) ==
    \E u \in Users : Enter(p, Call("get_today_records", u, "", 0, <<>>, <<>>, ""))

\* The same for the texts of users who log a food with any mass.
ReceiveMass(p) == \E u \in Users, t \in MassTexts : ReceiveText(p, u, t)

\* The same for the texts that fill and use the ledger.
ReceiveLedger(p) == \E u \in Users, t \in LedgerTexts : ReceiveText(p, u, t)

\* How a storage call ends (ok: it returns; ~ok: it raises): the entry of
\* hist, what parse_text does with the outcome, and the method's locals, which
\* go out of scope.  state and day are what the call read.
EndCall(p, ok, state, day) ==
    LET val == IF ok THEN ReturnOf(call[p], state, day) ELSE 0
        nxt == IF cmd[p] = NoCmd THEN Reply("")
               ELSE After(cmd[p].text, call[p], ok, val, state, day)
    IN
    /\ hist' = IF call[p].op \in Mutations \cup {"init"}
               THEN Append(hist, [call |-> call[p], now |-> day, ok |-> ok,
                                  val |-> val])
               ELSE hist
    /\ ret' = [ret EXCEPT ![p] =
            [status |-> IF ok THEN "returned" ELSE "raised", call |-> call[p],
             val |-> val]]
    /\ pc' = [pc EXCEPT ![p] =
            IF nxt.kind = "call" THEN "read"
            ELSE IF call[p].op = "init" /\ ~ok THEN "crashed" ELSE "idle"]
    /\ call' = [call EXCEPT ![p] = nxt.call]
    /\ reply' = [reply EXCEPT ![p] = nxt.reply]
    /\ flex' = [flex EXCEPT ![p] = nxt.flex]
    /\ st' = [st EXCEPT ![p] = InitState]
    /\ readok' = [readok EXCEPT ![p] = TRUE]
    /\ base' = [base EXCEPT ![p] = InitState]
    /\ now' = [now EXCEPT ![p] = 1]
    /\ sha' = [sha EXCEPT ![p] = <<>>]
    /\ UNCHANGED <<today, cmd, budget>>

\* The method body after _read_state returned `state`: a mutation changes
\* the dict and goes on to _write_state, a query returns.
Compute(p, ok, state) ==
    IF call[p].op \in Mutations
    THEN /\ readok' = [readok EXCEPT ![p] = ok]
         /\ base' = [base EXCEPT ![p] = state]
         /\ now' = [now EXCEPT ![p] = today]
         /\ st' = [st EXCEPT ![p] = Apply(call[p], state, today)]
         /\ pc' = [pc EXCEPT ![p] = "save"]
         /\ UNCHANGED <<remote, today, cmd, reply, call, sha, ret, hist, budget, flex>>
    ELSE /\ EndCall(p, TRUE, state, today)
         /\ UNCHANGED remote

\* _read_state: _get_file answers 200, the content is decoded.
ReadState(p) ==
    /\ pc[p] = "read"
    /\ remote # <<>>
    /\ Compute(p, TRUE, remote[1])

\* _read_state: _get_file answers anything but 200 (the file is absent, or the
\* request failed) and returns None: the method goes on with an empty ledger.
ReadStateNone(p) ==
    /\ pc[p] = "read"
    /\ Compute(p, FALSE, InitState)

\* _save_file: current = self._get_file() answers 200, payload["sha"] is set.
SaveFileGet(p) ==
    /\ pc[p] = "save"
    /\ remote # <<>>
    /\ sha' = [sha EXCEPT ![p] = <<ShaOf(remote[1])>>]
    /\ pc' = [pc EXCEPT ![p] = "put"]
    /\ UNCHANGED <<remote, today, cmd, reply, call, st, readok, base, now, ret,
                   hist, budget, flex>>

\* _save_file: current is None, the payload carries no sha.
SaveFileGetNone(p) ==
    /\ pc[p] = "save"
    /\ sha' = [sha EXCEPT ![p] = <<>>]
    /\ pc' = [pc EXCEPT ![p] = "put"]
    /\ UNCHANGED <<remote, today, cmd, reply, call, st, readok, base, now, ret,
                   hist, budget, flex>>

\* The Contents API accepts a PUT that creates the file (no sha, no file) or
\* that names the sha of the blob it replaces.
PutAccepted(p) ==
    \/ sha[p] = <<>> /\ remote = <<>>
    \/ sha[p] # <<>> /\ remote # <<>> /\ sha[p][1] = ShaOf(remote[1])

\* _save_file: requests.put answers 200 or 201, the file holds the new content.
SaveFilePut(p) ==
    /\ pc[p] = "put"
    /\ PutAccepted(p)
    /\ remote' = <<st[p]>>
    /\ EndCall(p, TRUE, base[p], now[p])

\* A _save_file that answers a rejected PUT by fetching the sha again and
\* repeating the PUT, without a bound, instead of raising.
SaveFileRetry(p) ==
    /\ pc[p] = "put"
    /\ ~PutAccepted(p)
    /\ pc' = [pc EXCEPT ![p] = "save"]
    /\ UNCHANGED <<remote, today, cmd, reply, call, st, readok, base, now, sha, ret,
                   hist, budget, flex>>

\* _save_file: requests.put answers 409 or 422, raise Exception("GitHub save failed").
SaveFileRejected(p) ==
    /\ pc[p] = "put"
    /\ ~PutAccepted(p)
    /\ EndCall(p, FALSE, base[p], now[p])
    /\ UNCHANGED remote

\* GitHubStorage.__init__: _get_file() answers 200, the file exists.
Boot(p) ==
    /\ pc[p] = "boot"
    /\ remote # <<>>
    /\ pc' = [pc EXCEPT ![p] = "idle"]
    /\ UNCHANGED <<remote, today, cmd, reply, call, st, readok, base, now, sha,
                   ret, hist, budget, flex>>

\* GitHubStorage.__init__: _get_file() returns None, the initial document is saved.
BootNone(p) ==
    /\ pc[p] = "boot"
    /\ call' = [call EXCEPT ![p] = InitCall]
    /\ st' = [st EXCEPT ![p] = InitState]
    /\ readok' = [readok EXCEPT ![p] = FALSE]
    /\ pc' = [pc EXCEPT ![p] = "save"]
    /\ UNCHANGED <<remote, today, cmd, reply, base, now, sha, ret, hist, budget, flex>>

\* ------------------------------------------------------------ LocalStorage
\* LocalStorage keeps the document in self.state; _read_state returns that
\* dict itself and every method changes it in place, statement by statement,
\* without a lock.  Here `remote` holds self.state, the callers are threads of
\* one process, and a thread may be switched between two statements.

\* The in-place stores of a method on the dict cur, snap being the dict as it
\* was when the method read rid (add_record) or built `new` (delete_record,
\* clear_today).
LocalEffect(c, cur, snap, day) ==
    CASE c.op = "add_record" ->
            [cur EXCEPT !.records =
                Put(cur.records, c.user_id,
                    Append(RecordsOf(cur, c.user_id),
                           NewRecord(snap, c.food, c.nums[1], c.macros[1],
                                     c.macros[2], c.macros[3], day)))]
      [] c.op = "delete_record" ->
            [cur EXCEPT !.records =
                Put(cur.records, c.user_id,
                    DeleteKeep(RecordsOf(snap, c.user_id), c.rec_id))]
      [] c.op = "clear_today" ->
            [cur EXCEPT !.records =
                Put(cur.records, c.user_id,
                    ClearKeep(RecordsOf(snap, c.user_id), day))]
      [] OTHER -> Apply(c, cur, day)

\* A thread enters a LocalStorage method.
LocalBegin(p) ==
    /\ pc[p] = "idle"
    /\ budget > 0
    /\ \E c \in ApiCalls : call' = [call EXCEPT ![p] = c]
    /\ pc' = [pc EXCEPT ![p] = "lread"]
    /\ ret' = [ret EXCEPT ![p] = NoRet]
    /\ cmd' = [cmd EXCEPT ![p] = NoCmd]
    /\ reply' = [reply EXCEPT ![p] = ""]
    /\ flex' = [flex EXCEPT ![p] = <<>>]
    /\ budget' = budget - 1
    /\ UNCHANGED <<remote, today, st, readok, base, now, sha, hist>>

\* state = self._read_state() and the statements that read it: rid =
\* state.get("next_record_id", 1), or recs and new = [...]; the clock is read.
LocalRead(p) ==
    /\ pc[p] = "lread"
    /\ base' = [base EXCEPT ![p] = remote[1]]
    /\ now' = [now EXCEPT ![p] = today]
    /\ pc' = [pc EXCEPT ![p] = "lstore"]
    /\ UNCHANGED <<remote, today, cmd, reply, call, st, readok, sha, ret, hist,
                   budget, flex>>

\* The statement that stores into the dict: ...append(rec) of add_record,
\* which goes on to its next statement, or the one store of the other
\* methods, which then return (self._write_state(state) assigns the same dict).
LocalStore(p) ==
    /\ pc[p] = "lstore"
    /\ remote' = <<LocalEffect(call[p], remote[1], base[p], now[p])>>
    /\ IF call[p].op = "add_record"
       THEN /\ pc' = [pc EXCEPT ![p] = "lnext"]
            /\ UNCHANGED <<today, cmd, reply, call, st, readok, base, now, sha, ret,
                           hist, budget, flex>>
       ELSE EndCall(p, TRUE, base[p], now[p])

\* add_record: state["next_record_id"] = rid + 1; return rec
LocalSetNextId(p) ==
    /\ pc[p] = "lnext"
    /\ remote' = <<[remote[1] EXCEPT !.next_record_id = base[p].next_record_id + 1]>>
    /\ EndCall(p, TRUE, base[p], now[p])

\* ----------------------------------------------------------- specifications
\* Storage calls of concurrent callers, every GET answered 200.
Next ==
    \/ Tick
    \/ \E p \in Procs :
        \/ BeginCall(p)
        \/ ReadState(p)
        \/ SaveFileGet(p)
        \/ SaveFilePut(p)
        \/ SaveFileRejected(p)

Spec == Init /\ [][Next]_vars

\* The same from a repository without the file, where any GET may fail.
NextFail ==
    \E p \in Procs :
        \/ Boot(p)
        \/ BootNone(p)
        \/ BeginCall(p)
        \/ ReadState(p)
        \/ ReadStateNone(p)
        \/ SaveFileGet(p)
        \/ SaveFileGetNone(p)
        \/ SaveFilePut(p)
        \/ SaveFileRejected(p)

SpecFail == InitAbsent /\ [][NextFail]_vars

\* Text commands of concurrent users through parse_text, every GET answered 200.
NextCmd ==
    \/ Tick
    \/ \E p \in Procs :
        \/ Receive(p)
        \/ ReadState(p)
        \/ SaveFileGet(p)
        \/ SaveFilePut(p)
        \/ SaveFileRejected(p)

SpecCmd == Init /\ [][NextCmd]_vars

\* Callers who log food and read the day's records, every GET answered 200.
NextQuery ==
    \/ Tick
    \/ \E p \in Procs :
        \/ BeginLog(p)
        \/ BeginQuery(p)
        \/ ReadState(p)
        \/ SaveFileGet(p)
        \/ SaveFilePut(p)
        \/ SaveFileRejected(p)

SpecQuery == Init /\ [][NextQuery]_vars

\* Text commands that fill and use the ledger, from concurrent users.
NextLedger ==
    \E p \in Procs :
        \/ ReceiveLedger(p)
        \/ ReadState(p)
        \/ SaveFileGet(p)
        \/ SaveFilePut(p)
        \/ SaveFileRejected(p)

SpecLedger == Init /\ [][NextLedger]_vars

\* Catalog calls of concurrent callers, every GET answered 200.
NextCatalog ==
    \E p \in Procs :
        \/ BeginCatalog(p)
        \/ ReadState(p)
        \/ SaveFileGet(p)
        \/ SaveFilePut(p)
        \/ SaveFileRejected(p)

SpecCatalog == Init /\ [][NextCatalog]_vars

\* The text commands of a user who looks at the day's percents.
NextFlex ==
    \E p \in Procs :
        \/ ReceiveFlex(p)
        \/ ReadState(p)
        \/ SaveFileGet(p)
        \/ SaveFilePut(p)
        \/ SaveFileRejected(p)

SpecFlex == InitFlex /\ [][NextFlex]_vars

\* LocalStorage methods called by concurrent threads of one process.
NextLocal ==
    \E p \in Procs :
        \/ LocalBegin(p)
        \/ LocalRead(p)
        \/ LocalStore(p)
        \/ LocalSetNextId(p)

SpecLocal == Init /\ [][NextLocal]_vars

\* Users who look at the ledger: text commands and chart requests.
NextRead ==
    \E p \in Procs :
        \/ ReceiveRead(p)
        \/ Chart(p)
        \/ ReadState(p)
        \/ SaveFileGet(p)
        \/ SaveFilePut(p)
        \/ SaveFileRejected(p)

SpecRead == Init /\ [][NextRead]_vars

\* Users who enter a food and log it with any mass.
NextMass ==
    \E p \in Procs :
        \/ ReceiveMass(p)
        \/ ReadState(p)
        \/ SaveFileGet(p)
        \/ SaveFilePut(p)
        \/ SaveFileRejected(p)

SpecMass == Init /\ [][NextMass]_vars

\* Every HTTP request is answered, so a caller that can take a step of its
\* method takes it (requests.get and requests.put return).
Step(p) ==
    \/ Boot(p)
    \/ BootNone(p)
    \/ ReadState(p)
    \/ ReadStateNone(p)
    \/ SaveFileGet(p)
    \/ SaveFileGetNone(p)
    \/ SaveFilePut(p)
    \/ SaveFileRejected(p)

FairSpecFail == SpecFail /\ \A p \in Procs : WF_vars(Step(p))

\* ------------------------------------------------------------------ claims
Idle == \A p \in Procs : pc[p] = "idle"

\* The stored document (the initial one while the file is absent).
Stored == IF remote = <<>> THEN InitState ELSE remote[1]
StoredNext == IF remote' = <<>> THEN InitState ELSE remote'[1]

\* The storage calls of hist that are successful add_record calls of user u.
AddsOf(u) ==
    {i \in 1..Len(hist) :
        hist[i].ok /\ hist[i].call.op = "add_record" /\ hist[i].call.user_id = u}

\* C1: when the only storage calls made are add_record calls for one user,
\* and all of them have returned, the user's stored list holds one record per
\* call (it grew from empty by exactly the number of calls).
C1_NoLostUpdate ==
    \A u \in Users :
        (Idle /\ AddsOf(u) = 1..Len(hist))
            => Len(RecordsOf(Stored, u)) = Len(hist)

\* The documents that result from applying the calls of h numbered in S one
\* at a time, in any order, starting from state.
RECURSIVE Outcomes(_, _, _)
Outcomes(h, S, state) ==
    IF S = {} THEN {state}
    ELSE UNION {Outcomes(h, S \ {i}, Apply(h[i].call, state, h[i].now)) : i \in S}

\* C2: when all mutations made so far have returned, the stored document is
\* the result of applying them one at a time in some order.
C2_Linearizable ==
    (Idle /\ \A i \in 1..Len(hist) : hist[i].ok)
        => Stored \in Outcomes(hist, 1..Len(hist), InitState)

\* C3: next_record_id is greater than every id add_record has returned, and
\* no id was returned by two add_record calls.
C3_IdsNeverReused ==
    LET adds == UNION {AddsOf(u) : u \in Users} IN
    /\ \A i \in adds : Stored.next_record_id > hist[i].val
    /\ \A i, j \in adds : i # j => hist[i].val # hist[j].val

C5_FailureSurfaced ==
    \A p \in Procs :
        (/\ pc[p] = "idle"
         /\ cmd[p] # NoCmd
         /\ cmd[p].text[1] \in {"mubiao", "xinzeng", "shanchu"}
         /\ ret[p].status = "raised")
            => reply[p] \notin
                {"target_set", "food_added", "record_deleted", "record_not_found",
                 "target_format_error", "add_format_error", "delete_format_error",
                 "target_usage", "add_usage", "delete_usage"}

\* C6: a mutation whose read of the document failed leaves the stored
\* document unchanged, or replaces it by the change applied to the latest
\* stored document.
C6_FailedReadKeepsLedger ==
    [][\A p \in Procs :
        (/\ pc[p] = "put"
         /\ pc'[p] # "put"
         /\ call[p].op \in Mutations
         /\ ~readok[p])
            => \/ remote' = remote
               \/ remote' = <<Apply(call[p], Stored, now[p])>>]_vars

\* C7: the constructor's save of the initial document never changes a
\* document that is present.
C7_BootstrapKeepsDocument ==
    [][\A p \in Procs :
        (/\ pc[p] = "put"
         /\ pc'[p] # "put"
         /\ call[p].op = "init"
         /\ remote # <<>>)
            => remote' = remote]_vars

\* C8: when the command "shanchu k" of a user ends, the user's record k, if
\* there was one, is gone and the reply reports the deletion; if there was
\* none the reply says that record k was not found.
C8_DeleteCommandDeletes ==
    [][\A p \in Procs :
        (/\ cmd[p] # NoCmd
         /\ Len(cmd[p].text) = 2
         /\ cmd[p].text[1] = "shanchu"
         /\ IsInt(cmd[p].text[2])
         /\ pc[p] # "idle"
         /\ pc'[p] = "idle"
         /\ ret'[p].status = "returned")
            => IF IntOf[cmd[p].text[2]] \in RecIds(Stored, cmd[p].user_id)
               THEN /\ reply'[p] = "record_deleted"
                    /\ IntOf[cmd[p].text[2]] \notin RecIds(StoredNext, cmd[p].user_id)
               ELSE reply'[p] = "record_not_found"]_vars

\* Two documents hold the same ledger: catalog, targets, every user's record
\* list and next_record_id (a user without a list holds the empty list).
SameLedger(s, t) ==
    /\ s.food_db = t.food_db
    /\ s.targets = t.targets
    /\ s.next_record_id = t.next_record_id
    /\ \A u \in Users : RecordsOf(s, u) = RecordsOf(t, u)

\* C9: delete_record of an id the user does not hold returns 0 and leaves the
\* stored ledger as it is.
C9_DeleteMissingIsNoOp ==
    [][\A p \in Procs :
        (/\ pc[p] = "put"
         /\ pc'[p] = "idle"
         /\ call[p].op = "delete_record"
         /\ ret'[p].status = "returned"
         /\ call[p].rec_id \notin RecIds(base[p], call[p].user_id)
         /\ call[p].rec_id \notin RecIds(Stored, call[p].user_id))
            => /\ ret'[p].val = 0
               /\ SameLedger(StoredNext, Stored)]_vars

\* C10: delete_record and clear_today of one user leave the stored record
\* list of every other user as it is.
C10_DeleteIsolatedPerUser ==
    [][\A p \in Procs :
        (/\ pc[p] = "put"
         /\ pc'[p] = "idle"
         /\ call[p].op \in {"delete_record", "clear_today"}
         /\ ret'[p].status = "returned")
            => \A u \in Users \ {call[p].user_id} :
                    RecordsOf(StoredNext, u) = RecordsOf(Stored, u)]_vars

\* The indexes of the records of recs dated day.
DatedIdx(recs, day) == {i \in 1..Len(recs) : recs[i].time = day}

\* out is recs restricted to the indexes idx, in the order of recs: the k-th
\* record of out is the record of recs at the k-th index of idx.
IsPartAt(out, recs, idx) ==
    /\ Len(out) = Cardinality(idx)
    /\ \A k \in 1..Len(out) :
           \E i \in idx :
              /\ Cardinality({j \in idx : j <= i}) = k
              /\ out[k] = recs[i]

\* out is recs restricted to its records dated day.
IsDatedPart(out, recs, day) == IsPartAt(out, recs, DatedIdx(recs, day))

C12_ClearTodayFrame ==
    [][\A p \in Procs :
        (/\ pc[p] = "put"
         /\ pc'[p] = "idle"
         /\ call[p].op = "clear_today"
         /\ ret'[p].status = "returned")
            => LET old == RecordsOf(Stored, call[p].user_id)
                   new == RecordsOf(StoredNext, call[p].user_id)
               IN /\ IsPartAt(new, old, (1..Len(old)) \ DatedIdx(old, now[p]))
                  /\ ret'[p].val = Cardinality(DatedIdx(old, now[p]))
                  /\ \A u \in Users \ {call[p].user_id} :
                        RecordsOf(StoredNext, u) = RecordsOf(Stored, u)
                  /\ StoredNext.food_db = Stored.food_db
                  /\ StoredNext.targets = Stored.targets
                  /\ StoredNext.next_record_id = Stored.next_record_id]_vars

\* C13: no stored target holds a negative number, and no stored catalog entry
\* holds a portion that is not positive or a negative macro (a command with
\* such a number is refused and stores nothing).
C13_NoOutOfRangeStored ==
    /\ \A u \in DOMAIN Stored.targets :
          /\ Stored.targets[u].protein >= 0
          /\ Stored.targets[u].fat >= 0
          /\ Stored.targets[u].carbs >= 0
    /\ \A f \in DOMAIN Stored.food_db :
          /\ Stored.food_db[f].base_weight > 0
          /\ Stored.food_db[f].protein >= 0
          /\ Stored.food_db[f].fat >= 0
          /\ Stored.food_db[f].carbs >= 0

\* C14: a command "food mass" whose food the catalog lacks ends at its
\* lookup with the not-found reply: it makes no further storage call and the
\* stored document (every record list, next_record_id) stays as it is.
C14_UnknownFoodChangesNothing ==
    [][\A p \in Procs :
        (/\ pc[p] = "read"
         /\ ret'[p] # ret[p]
         /\ cmd[p] # NoCmd
         /\ call[p].op = "get_food"
         /\ call[p].food \notin DOMAIN Stored.food_db)
            => /\ pc'[p] = "idle"
               /\ reply'[p] = "food_not_in_db"
               /\ call'[p] = NoCall
               /\ remote' = remote]_vars

\* A user has logged a food the catalog lacks and got the not-found reply.
C14_Witness ==
    \E p \in Procs :
        /\ pc[p] = "idle"
        /\ cmd[p] # NoCmd
        /\ Len(cmd[p].text) = 2
        /\ cmd[p].text[1] \notin DOMAIN Stored.food_db
        /\ ret[p].call.op = "get_food"
        /\ reply[p] = "food_not_in_db"

\* The ids of every user's stored list increase in list order (so they are
\* pairwise distinct).
ListIdsIncrease ==
    \A u \in Users :
        \A i, j \in 1..Len(RecordsOf(Stored, u)) :
            i < j => RecordsOf(Stored, u)[i].id < RecordsOf(Stored, u)[j].id

\* An add_record that returns has added one record to the user's stored
\* list, under an id the list did not hold.
AddIsFresh ==
    \A p \in Procs :
        (/\ pc[p] = "put"
         /\ pc'[p] # "put"
         /\ call[p].op = "add_record"
         /\ ret'[p].status = "returned")
            => /\ ret'[p].val \notin RecIds(Stored, call[p].user_id)
               /\ RecIds(StoredNext, call[p].user_id)
                    = RecIds(Stored, call[p].user_id) \cup {ret'[p].val}
               /\ Len(RecordsOf(StoredNext, call[p].user_id))
                    = Len(RecordsOf(Stored, call[p].user_id)) + 1

\* C15: every add_record creates a new record under a fresh id (two logs of
\* one food by one user leave two records with distinct ids), and in every
\* state the ids of a user's list are pairwise distinct and increase in list
\* order.
C15_AppendOnlyFreshIds == []ListIdsIncrease /\ [][AddIsFresh]_vars

\* The add_food_db calls of hist that wrote the entry of name f.
UpsertsOf(f) ==
    {i \in 1..Len(hist) :
        hist[i].ok /\ hist[i].call.op = "add_food_db" /\ hist[i].call.food = f}

\* The last of them.
LastUpsert(f) == CHOOSE i \in UpsertsOf(f) : \A j \in UpsertsOf(f) : j <= i

\* The catalog entry an add_food_db call stores.
EntryOf(c) ==
    [base_weight |-> c.nums[1], protein |-> c.nums[2], fat |-> c.nums[3],
     carbs |-> c.nums[4], category |-> c.category]

\* C16: get_food of a name, made after an add_food_db of that name has
\* returned and while no other add_food_db of the name is under way, returns
\* exactly the portion, macros and category of the last such add_food_db; an
\* add_food_db that returns has stored its entry under the name (replacing an
\* earlier one) and left every other catalog entry as it was.
C16_CatalogRoundTrip ==
    [][\A p \in Procs :
        /\ (/\ pc[p] = "read"
             /\ ret'[p] # ret[p]
             /\ call[p].op = "get_food"
             /\ UpsertsOf(call[p].food) # {}
             /\ \A q \in Procs :
                    ~(call[q].op = "add_food_db" /\ call[q].food = call[p].food))
                => ret'[p].val = <<EntryOf(hist[LastUpsert(call[p].food)].call)>>
        /\ (/\ pc[p] = "put"
             /\ pc'[p] # "put"
             /\ call[p].op = "add_food_db"
             /\ ret'[p].status = "returned")
                => /\ get_food(StoredNext, call[p].food) = <<EntryOf(call[p])>>
                   /\ \A g \in (DOMAIN Stored.food_db) \ {call[p].food} :
                          get_food(StoredNext, g) = get_food(Stored, g)
                   /\ DOMAIN StoredNext.food_db
                        = DOMAIN Stored.food_db \cup {call[p].food}]_vars

\* The fraction q is the number n/d.
IsRatio(q, n, d) == q[2] > 0 /\ q[1] * d = n * q[2]

\* C17: a command that logs mass m of a catalog food with portion b and
\* macros (p, f, c) calls add_record with mass m and macros p*m/b, f*m/b,
\* c*m/b, and the record the call stores holds that mass and those macros.
C17_LoggedMacrosScaled ==
    [][\A p \in Procs :
        /\ (/\ pc[p] = "read"
             /\ ret'[p] # ret[p]
             /\ cmd[p] # NoCmd
             /\ call[p].op = "get_food"
             /\ call[p].food \in DOMAIN Stored.food_db)
                => LET e == Stored.food_db[call[p].food]
                       m == call[p].nums[1]
                   IN /\ call'[p].op = "add_record"
                      /\ call'[p].food = call[p].food
                      /\ call'[p].nums = <<m>>
                      /\ IsRatio(call'[p].macros[1], e.protein * m, e.base_weight)
                      /\ IsRatio(call'[p].macros[2], e.fat * m, e.base_weight)
                      /\ IsRatio(call'[p].macros[3], e.carbs * m, e.base_weight)
        /\ (/\ pc[p] = "put"
             /\ pc'[p] # "put"
             /\ cmd[p] # NoCmd
             /\ call[p].op = "add_record"
             /\ ret'[p].status = "returned")
                => LET recs == RecordsOf(StoredNext, call[p].user_id) IN
                   /\ recs # <<>>
                   /\ recs[Len(recs)].weight = call[p].nums[1]
                   /\ recs[Len(recs)].protein = call[p].macros[1]
                   /\ recs[Len(recs)].fat = call[p].macros[2]
                   /\ recs[Len(recs)].carbs = call[p].macros[3]]_vars

\* The percent the claim states for a total (a fraction) and a target t:
\* min(100, round(100 * total / t)), and 0 when t is 0.
StatedPct(total, t) ==
    LET r == IF t > 0 THEN RoundHalfEven(<<100 * total[1], total[2] * t>>)
             ELSE RoundHalfEven(<<-100 * total[1], total[2] * (-t)>>)
    IN IF t = 0 THEN 0 ELSE IF r > 100 THEN 100 ELSE r

\* What the claim states for a target that may be unset.
StatedPcts(totals, target) ==
    IF target = <<>> THEN <<0, 0, 0>>
    ELSE <<StatedPct(totals[1], target[1].protein),
           StatedPct(totals[2], target[1].fat),
           StatedPct(totals[3], target[1].carbs)>>

\* C18: the percents the Flex message shows are, per macro,
\* min(100, round(100 * total / target)) for the totals of today's records,
\* 0 when the target is 0 or unset, and always within 0..100.
C18_PercentOfTarget ==
    [][\A p \in Procs :
        (/\ pc[p] = "read"
         /\ ret'[p] # ret[p]
         /\ cmd[p] # NoCmd
         /\ call[p].op = "get_target")
            => /\ flex'[p] = StatedPcts(call[p].macros,
                                        get_target(Stored, call[p].user_id))
               /\ \A i \in 1..3 : flex'[p][i] \in 0..100]_vars

\* C19: in LocalStorage two callers are never both between their read of the
\* state and their write of it, and add_record calls that ran at the same
\* time have lost no record and returned no id twice.
C19_LocalCriticalSection ==
    /\ \A p, q \in Procs :
          p # q => ~(pc[p] \in {"lstore", "lnext"} /\ pc[q] \in {"lstore", "lnext"})
    /\ \A u \in Users :
          (Idle /\ AddsOf(u) = 1..Len(hist))
            => /\ Len(RecordsOf(Stored, u)) = Len(hist)
               /\ \A i, j \in 1..Len(hist) : i # j => hist[i].val # hist[j].val

\* C20: the PUT of a mutation carries the sha of the document the mutation
\* read and computed its content from, and it is applied only while that
\* document is still the stored one.
C20_WriteWithReadToken ==
    [][\A p \in Procs :
        (/\ pc[p] = "put"
         /\ pc'[p] # "put"
         /\ call[p].op \in Mutations
         /\ ret'[p].status = "returned")
            => /\ sha[p] = <<ShaOf(base[p])>>
               /\ Stored = base[p]]_vars

\* C21: an add_food_db (also one that overwrites the entry of a logged food)
\* or a set_target that returns leaves every stored record of every user as
\* it was: mass and macros of a record are not derived again.
C21_RecordsNotRederived ==
    [][\A p \in Procs :
        (/\ pc[p] = "put"
         /\ pc'[p] # "put"
         /\ call[p].op \in {"add_food_db", "set_target"}
         /\ ret'[p].status = "returned")
            => \A u \in Users : RecordsOf(StoredNext, u) = RecordsOf(Stored, u)]_vars

\* The words of parse_text's commands.
CommandWords ==
    {"mubiao", "xinzeng", "chashiwu", "sousuo", "shanchu", "qingchu_quanbu",
     "jinri_liebiao", "jinri_leiji"}

\* A text that is no command: it does not begin with a command word and is
\* not a pair "food mass".
Unrecognized(t) == t # <<>> /\ t[1] \notin CommandWords /\ Len(t) # 2

\* A text that asks for no change: 查食物, 搜尋, 今日列表, 今日累計, or no
\* command at all.
AsksNoChange(t) ==
    \/ t \in {<<"chashiwu">>, <<"jinri_liebiao">>, <<"jinri_leiji">>}
    \/ (t # <<>> /\ t[1] = "sousuo")
    \/ Unrecognized(t)

\* Caller p takes a step.
Moves(p) ==
    \/ pc'[p] # pc[p]
    \/ ret'[p] # ret[p]
    \/ cmd'[p] # cmd[p]
    \/ call'[p] # call[p]

\* Caller p is in a chart request (a get_today_records call outside parse_text).
InChart(p) ==
    /\ cmd'[p] = NoCmd
    /\ (call[p].op = "get_today_records" \/ call'[p].op = "get_today_records")

\* C22: no step of a chart request or of a command that asks for no change
\* writes: the stored document stays as it is and the caller never enters
\* _write_state; a text that is no command makes no storage call.
C22_ReadsNeverWrite ==
    [][\A p \in Procs :
        (Moves(p) /\ (InChart(p) \/ (cmd'[p] # NoCmd /\ AsksNoChange(cmd'[p].text))))
            => /\ remote' = remote
               /\ hist' = hist
               /\ pc'[p] \in {"idle", "read"}
               /\ (cmd'[p] # NoCmd /\ Unrecognized(cmd'[p].text))
                    => /\ pc'[p] = "idle"
                       /\ call'[p] = NoCall
                       /\ ret'[p] = NoRet
                       /\ reply'[p] = "help"]_vars

\* Over a ledger that holds a catalog entry, one caller has been shown the
\* day's percents and another has ended a chart request.
C22_Witness ==
    /\ DOMAIN Stored.food_db # {}
    /\ \E p, q \in Procs :
          /\ pc[p] = "idle"
          /\ cmd[p] # NoCmd
          /\ cmd[p].text = <<"jinri_leiji">>
          /\ flex[p] # <<>>
          /\ pc[q] = "idle"
          /\ cmd[q] = NoCmd
          /\ ret[q].status = "returned"
          /\ ret[q].call.op = "get_today_records"

\* C23: every stored record holds a positive mass and non-negative protein,
\* fat and carbs, whatever commands the users sent.
C23_RecordsInRange ==
    \A u \in Users :
        \A i \in 1..Len(RecordsOf(Stored, u)) :
            LET r == RecordsOf(Stored, u)[i] IN
            /\ r.weight > 0
            /\ r.protein[1] >= 0
            /\ r.fat[1] >= 0
            /\ r.carbs[1] >= 0

====
